---- MODULE Spec2Model ----
(***************************************************************************)
(* Model of the Message component of the CAN-bus adapter's settings UI     *)
(* (admin/src/components/message.tsx).                                     *)
(*                                                                         *)
(* The component is a React class component.  this.setState(partial, cb)   *)
(* does not change this.state at once: the update is queued (pending) and  *)
(* a later commit (Flush) merges the queued partial states in order and    *)
(* then runs their callbacks in order.  A handler called while updates are *)
(* queued therefore still reads the old this.state.  An `await` in an      *)
(* async handler is a continuation (microtasks) that runs after the        *)
(* promise it waits for was resolved by a callback.  Whether React commits *)
(* an update queued by a continuation at once or after the other waiting   *)
(* continuations depends on the React version: both orders are steps.      *)
(*                                                                         *)
(* The environment: the handlers of the component's own controls run one   *)
(* per browser event; the handlers handed to the Parser children           *)
(* (their code lies outside this model) may be called back to back         *)
(* within one batch, and onParserValidate also while the children mount.   *)
(*                                                                         *)
(* The codec of a parser instance (ParserConfig.instance, declared in      *)
(* src/lib/interfaces.d.ts) is a pair of pure functions; it has a          *)
(* specification of its own, CodecSpec, in which a value is encoded and    *)
(* decoded again.                                                          *)
(*                                                                         *)
(* Strings are sequences of one-character strings.                         *)
(***************************************************************************)
EXTENDS Integers, Sequences, FiniteSets, TLC

\* ------------------------------------------------------------------ bounds

\* Parser keys: 1..NumKeys.
NumKeys == 3
\* Mutations (handleChange calls) issued over a run.
MaxMut == 2
\* Child validity reports and tab and dialog events over a run.
MaxEv == 2
\* Handler calls React batches into one commit.
MaxBatch == 2

Keys == 1..NumKeys

\* What uuidv4() may return: a random key.  That it equals a key in use is
\* improbable, and nothing in the generator or its caller rules it out.
Uuidv4Results == Keys

\* ------------------------------------------------------- JavaScript values

Null == "null"
Undefined == [t |-> "undefined"]
Num(n) == [t |-> "number", v |-> n]
Str(s) == [t |-> "string", v |-> s]
Bool(b) == [t |-> "boolean", v |-> b]
Obj(o) == [t |-> "object", v |-> o]

\* JavaScript truthiness of a tagged value.
Truthy(x) ==
  CASE x.t = "undefined" -> FALSE
    [] x.t = "number" -> x.v # 0
    [] x.t = "string" -> x.v # <<>>
    [] x.t = "boolean" -> x.v
    [] OTHER -> TRUE

\* a || d
JsOr(x, d) == IF Truthy(x) THEN x.v ELSE d

\* An object with string keys, in insertion order: a sequence of entries.
ObjKeys(o) == {o[i].key : i \in 1..Len(o)}

\* o[k] = v: an existing key keeps its place, a new key is appended.
ObjSet(o, k, v) ==
  IF k \in ObjKeys(o)
  THEN [i \in 1..Len(o) |-> IF o[i].key = k THEN [key |-> k, cfg |-> v] ELSE o[i]]
  ELSE Append(o, [key |-> k, cfg |-> v])

ObjDeleteDropTail(o, k) ==
  IF k \in ObjKeys(o)
  THEN SubSeq(o, 1, (CHOOSE i \in 1..Len(o) : o[i].key = k) - 1)
  ELSE o

\* delete o[k]
ObjDelete(o, k) == SelectSeq(o, LAMBDA e : e.key # k)

\* --------------------------------------------------------------- constants

HexDigits == {"0", "1", "2", "3", "4", "5", "6", "7", "8", "9",
              "a", "b", "c", "d", "e", "f", "A", "B", "C", "D", "E", "F"}

\* s.match(MESSAGE_ID_REGEXP): exactly 3 or exactly 8 hexadecimal characters.
MatchesIdRegexp(s) ==
  /\ Len(s) \in {3, 8}
  /\ \A i \in 1..Len(s) : s[i] \in HexDigits

IdErrorText == "Must be a 3 or 8 char hex ID"

NewParserValidTrue == TRUE

\* onParserAdd reports the new parser with this verdict.
NewParserValid == FALSE

DefaultParser ==
  [id |-> <<>>, name |-> <<>>, dataType |-> "int8", dataLength |-> 1,
   dataOffset |-> 0, dataUnit |-> <<>>, dataEncoding |-> "latin1",
   booleanMask |-> 0, booleanInvert |-> FALSE,
   customScriptRead |-> <<>>, customScriptWrite |-> <<>>]

\* ------------------------------------------------------------------ inputs

IdInputs == {<<>>, <<"1", "a", "B">>, <<"1", "A", "G">>}

NameInputs == {<<"n">>}

\* Values of the data length select (parseInt of the option keys -1..8).
DlcInputs == {-1, 0, 8}

ParserInputs ==
  {[DefaultParser EXCEPT !.id = <<"t">>],
   [DefaultParser EXCEPT !.id = <<"r">>, !.dataType = "uint16",
                         !.dataOffset = 4, !.dataLength = 2]}

EmptyConfig ==
  [id |-> Undefined, name |-> Undefined, dlc |-> Undefined, receive |-> Undefined,
   send |-> Undefined, autosend |-> Undefined, parsers |-> Undefined]

\* props.config: possibly partial configurations.
Configs ==
  {EmptyConfig,
   [EmptyConfig EXCEPT !.dlc = Num(9)],
   [EmptyConfig EXCEPT !.id = Str(<<"1", "A", "B">>), !.name = Str(<<"n">>),
                       !.dlc = Num(0), !.receive = Bool(TRUE),
                       !.send = Bool(FALSE), !.autosend = Bool(TRUE),
                       !.parsers = Obj(<<>>)],
   [EmptyConfig EXCEPT !.id = Str(<<"1", "A">>), !.dlc = Str(<<"4">>),
                       !.send = Bool(TRUE),
                       !.parsers = Obj(<<[key |-> 1, cfg |-> [DefaultParser EXCEPT !.id = <<"t">>]],
                                         [key |-> 2, cfg |-> DefaultParser]>>)],
   [EmptyConfig EXCEPT !.id = Str(<<"0", "0", "a", "0", "1", "2", "3", "B">>),
                       !.dlc = Num(4),
                       !.parsers = Obj(<<[key |-> 1, cfg |-> [DefaultParser EXCEPT !.id = <<"t">>]]>>)]}

\* ------------------------------------------------------------------- state

VARIABLES
  config,      \* props.config
  state,       \* this.state
  mounted,     \* componentDidMount has run
  pending,     \* setState updates queued and not yet committed
  microtasks,  \* continuations of async handlers waiting to resume
  batchN,      \* child calls in the batch that is open (0: none open)
  codec,       \* the codec call of a parser instance that is under way, if any
  vlog,        \* props.onValidate calls made by the last step
  lastReport,  \* the last props.onValidate call
  clog,        \* props.onChange calls made by the last step
  lastChange,  \* the payload of the last props.onChange call
  nMut,        \* mutations issued
  nChange,     \* props.onChange calls made
  nRep,        \* child validity reports issued from outside
  nUi,         \* tab and dialog events
  nDelete,     \* props.onDelete calls made
  reported,    \* per parser key, the last verdict handed to onParserValidate
  expParsers,  \* parsers after the mutations of the open batch, applied in order
  ev           \* the handler the last step completed, if it completed one

vars == <<config, state, mounted, pending, microtasks, batchN, codec, vlog,
          lastReport, clog, lastChange, nMut, nChange, nRep, nUi, nDelete,
          reported, expParsers, ev>>

NoCont == [t |-> "none"]
NoEvent == [t |-> "none"]
NoChange == [t |-> "none"]
NoCodec == [pc |-> "none"]
EmptyPart == <<>>

\* The persisted fields of a state: what onChange hands out.
Persisted(st) ==
  [id |-> st.id, name |-> st.name, dlc |-> st.dlc, receive |-> st.receive,
   send |-> st.send, autosend |-> st.autosend, parsers |-> st.parsers]

MergeSendResetsAutosend(st, part) ==
  [f \in DOMAIN st |->
     IF f \in DOMAIN part THEN part[f]
     ELSE IF f = "autosend" /\ "send" \in DOMAIN part /\ ~part.send THEN FALSE
     ELSE st[f]]

\* React's merge of a partial state into the state.
Merge(st, part) ==
  [f \in DOMAIN st |-> IF f \in DOMAIN part THEN part[f] ELSE st[f]]

RECURSIVE MergeAll(_, _)
MergeAll(st, ups) ==
  IF ups = <<>> THEN st ELSE MergeAll(Merge(st, Head(ups).part), Tail(ups))

\* ----------------------------------------------------------- validateState

ValidateIsValidNoParsers(part, hasThis, cur) ==
  IF "id" \in DOMAIN part
  THEN MatchesIdRegexp(part.id)
  ELSE ~(~hasThis \/ cur.idError # Null)

\* isValid as validateState computes it; hasThis: this.state is set.
ValidateIsValid(part, hasThis, cur) ==
  /\ IF "id" \in DOMAIN part
     THEN MatchesIdRegexp(part.id)
     ELSE ~(~hasThis \/ cur.idError # Null)
  /\ hasThis => \A uuid \in DOMAIN cur.parsersValid : cur.parsersValid[uuid]

ValidatedPartKeepError(part) == part

\* The state object validateState returns: idError is set when id is given.
ValidatedPart(part) ==
  IF "id" \in DOMAIN part
  THEN [f \in DOMAIN part \cup {"idError"} |->
          IF f = "idError"
          THEN (IF MatchesIdRegexp(part.id) THEN Null ELSE IdErrorText)
          ELSE part[f]]
  ELSE part

\* The props.onValidate call validateState makes, with what it was computed
\* from: the id it checked (given or stored) and this.state.parsersValid.
Report(part, hasThis, cur) ==
  [valid |-> ValidateIsValid(part, hasThis, cur),
   id |-> IF "id" \in DOMAIN part THEN part.id
          ELSE IF hasThis THEN cur.id ELSE <<>>,
   pv |-> IF hasThis THEN cur.parsersValid ELSE <<>>]

\* ------------------------------------------------------------------ render

DecDigits == <<"0", "1", "2", "3", "4", "5", "6", "7", "8", "9">>

\* The string a template literal makes of an integer.
RECURSIVE NumToString(_)
NumToString(n) ==
  IF n < 0 THEN <<"-">> \o NumToString(0 - n)
  ELSE IF n < 10 THEN <<DecDigits[n + 1]>>
  ELSE NumToString(n \div 10) \o <<DecDigits[(n % 10) + 1]>>

ParserMsgIdPositive(st) ==
  IF st.dlc > 0 THEN st.id \o <<"-">> \o NumToString(st.dlc) ELSE st.id

\* The msgId prop render hands to every Parser child.
ParserMsgId(st) ==
  IF st.dlc >= 0 THEN st.id \o <<"-">> \o NumToString(st.dlc) ELSE st.id

\* The Parser children render creates from this.state, in tab order, with
\* the props that come from the state.
RenderParsers(st) ==
  [i \in 1..Len(st.parsers) |->
     [uuid |-> st.parsers[i].key, config |-> st.parsers[i].cfg, msgId |-> ParserMsgId(st)]]

\* ------------------------------------------------------------- constructor

CtorArgDlcOr(cfg) ==
  [tabIndex |-> 0,
   id |-> JsOr(cfg.id, <<>>),
   idError |-> Null,
   name |-> JsOr(cfg.name, <<>>),
   dlc |-> IF cfg.dlc.t = "number" /\ cfg.dlc.v # 0 THEN cfg.dlc.v ELSE -1,
   receive |-> JsOr(cfg.receive, FALSE),
   send |-> JsOr(cfg.send, FALSE),
   autosend |-> JsOr(cfg.autosend, FALSE),
   parsers |-> JsOr(cfg.parsers, <<>>),
   parsersValid |-> <<>>,
   showRemoveConfirm |-> FALSE]

\* The object the constructor hands to validateState.
CtorArg(cfg) ==
  [tabIndex |-> 0,
   id |-> JsOr(cfg.id, <<>>),
   idError |-> Null,
   name |-> JsOr(cfg.name, <<>>),
   dlc |-> IF cfg.dlc.t = "number" THEN cfg.dlc.v ELSE -1,
   receive |-> JsOr(cfg.receive, FALSE),
   send |-> JsOr(cfg.send, FALSE),
   autosend |-> JsOr(cfg.autosend, FALSE),
   parsers |-> JsOr(cfg.parsers, <<>>),
   parsersValid |-> <<>>,
   showRemoveConfirm |-> FALSE]

\* this.state after the constructor.
CtorState(cfg) == ValidatedPart(CtorArg(cfg))

Init ==
  /\ config \in Configs
  /\ state = CtorState(config)
  /\ mounted = FALSE
  /\ pending = <<>>
  /\ microtasks = <<>>
  /\ batchN = 0
  /\ codec = NoCodec
  /\ vlog = <<Report(CtorArg(config), FALSE, EmptyPart)>>
  /\ lastReport = Report(CtorArg(config), FALSE, EmptyPart)
  /\ clog = <<>>
  /\ lastChange = NoChange
  /\ nMut = 0
  /\ nChange = 0
  /\ nRep = 0
  /\ nUi = 0
  /\ nDelete = 0
  /\ reported = <<>>
  /\ expParsers = CtorState(config).parsers
  /\ ev = [t |-> "constructor"]

\* ---------------------------------------------------------------- handlers

\* The handlers of the component's own controls (the inputs, the add button,
\* the tabs, the remove button and dialog) run one per browser event: React
\* commits the event's updates, and the continuations they resolve run,
\* before the next event is handled.
CanEnterOwn ==
  /\ mounted
  /\ microtasks = <<>>
  /\ pending = <<>>

\* The handlers handed to the Parser children (onParserChange,
\* onParserValidate, onParserDelete) may be called several times within one
\* batch: no continuation is waiting, and either nothing is queued or the
\* updates queued are those of the child calls of the batch still open.
CanEnter ==
  /\ mounted
  /\ microtasks = <<>>
  /\ pending = <<>> \/ batchN > 0
  /\ batchN < MaxBatch

Quiescent == mounted /\ pending = <<>> /\ microtasks = <<>>

\* parsers the open batch starts from
BatchBase == IF batchN = 0 THEN state.parsers ELSE expParsers

Update(part, cb, cont, fld) == [part |-> part, cb |-> cb, cont |-> cont, fld |-> fld]

\* The callback handleChange hands to setState: it calls props.onChange.
HandleChangeCallback == "change"

OnParserValidateCallbackChange == "change"

\* The callback onParserValidate hands to setState: it calls validateState().
OnParserValidateCallback == "validate"

\* handleChange(key, value): validateState(newState), then setState(newState, cb).
HandleChange(key, value, cont) ==
  /\ vlog' = <<Report(key :> value, TRUE, state)>>
  /\ lastReport' = Report(key :> value, TRUE, state)
  /\ pending' = Append(pending,
                       Update(ValidatedPart(key :> value), HandleChangeCallback, cont, key))
  /\ nMut' = nMut + 1
  /\ clog' = <<>>
  /\ UNCHANGED <<config, state, mounted, microtasks, lastChange, nChange>>

\* The inputs of the form: the id, name, data length, receive, send and
\* autosend controls call handleChange(key, value).
SetField(key, value) ==
  /\ CanEnterOwn
  /\ nMut < MaxMut
  /\ HandleChange(key, value, NoCont)
  /\ batchN' = 0
  /\ expParsers' = state.parsers
  /\ ev' = NoEvent
  /\ UNCHANGED <<codec, nRep, nUi, nDelete, reported>>

\* onParserAdd, up to its first await.  uuid is the result of uuidv4(): a
\* random key, which nothing keeps from being one already in use.  The
\* continuation keeps the parsers the handler read (pre) for the properties
\* below.
OnParserAdd(uuid) ==
  /\ CanEnterOwn
  /\ nMut < MaxMut
  /\ HandleChange("parsers", ObjSet(state.parsers, uuid, DefaultParser),
                  [t |-> "add2", key |-> uuid, solo |-> TRUE, pre |-> state.parsers])
  /\ batchN' = 0
  /\ expParsers' = ObjSet(state.parsers, uuid, DefaultParser)
  /\ ev' = NoEvent
  /\ UNCHANGED <<codec, nRep, nUi, nDelete, reported>>

\* onParserChange(uuid, parser), called by the Parser child of key uuid.
OnParserChange(uuid, parser) ==
  /\ CanEnter
  /\ nMut < MaxMut
  /\ uuid \in ObjKeys(state.parsers)
  /\ HandleChange("parsers", ObjSet(state.parsers, uuid, parser), NoCont)
  /\ batchN' = batchN + 1
  /\ expParsers' = ObjSet(BatchBase, uuid, parser)
  /\ ev' = NoEvent
  /\ UNCHANGED <<codec, nRep, nUi, nDelete, reported>>

\* In st the id is well-formed and uuid is the one parser whose cached
\* verdict is invalid.
OnlyInvalidChild(st, uuid) ==
  /\ MatchesIdRegexp(st.id)
  /\ uuid \in ObjKeys(st.parsers)
  /\ uuid \in DOMAIN st.parsersValid
  /\ \A j \in DOMAIN st.parsersValid : st.parsersValid[j] <=> j # uuid

\* onParserDelete(uuid), up to its await.  The continuation keeps the parsers
\* the handler read (pre) for the properties below.
OnParserDelete(uuid) ==
  /\ CanEnter
  /\ nMut < MaxMut
  /\ HandleChange("parsers", ObjDelete(state.parsers, uuid),
                  [t |-> "del2", key |-> uuid, solo |-> TRUE, pre |-> state.parsers,
                   only |-> OnlyInvalidChild(state, uuid)])
  /\ batchN' = batchN + 1
  /\ expParsers' = ObjDelete(BatchBase, uuid)
  /\ ev' = NoEvent
  /\ UNCHANGED <<codec, nRep, nUi, nDelete, reported>>

\* The setState of onParserValidate(uuid, valid).
ParserValidateUpdate(uuid, valid, cont) ==
  Update("parsersValid" :> ((uuid :> valid) @@ state.parsersValid),
         OnParserValidateCallback, cont, "parsersValid")

\* onParserValidate(uuid, valid), called by the Parser child of key uuid: as
\* it mounts (before componentDidMount of the message) or later.
OnParserValidate(uuid, valid) ==
  /\ uuid \in ObjKeys(state.parsers)
  /\ nRep + nUi < MaxEv
  /\ IF mounted THEN CanEnter ELSE uuid \notin DOMAIN reported
  /\ pending' = Append(pending, ParserValidateUpdate(uuid, valid, NoCont))
  /\ reported' = (uuid :> valid) @@ reported
  /\ nRep' = nRep + 1
  /\ batchN' = batchN + 1
  /\ expParsers' = BatchBase
  /\ vlog' = <<>>
  /\ clog' = <<>>
  /\ ev' = NoEvent
  /\ UNCHANGED <<config, state, mounted, microtasks, codec, lastReport,
                 lastChange, nMut, nChange, nUi, nDelete>>

\* componentDidMount: validateState().
ComponentDidMount ==
  /\ ~mounted
  /\ mounted' = TRUE
  /\ vlog' = <<Report(EmptyPart, TRUE, state)>>
  /\ lastReport' = Report(EmptyPart, TRUE, state)
  /\ batchN' = 0
  /\ clog' = <<>>
  /\ ev' = NoEvent
  /\ UNCHANGED <<config, state, pending, microtasks, codec, lastChange, nMut,
                 nChange, nRep, nUi, nDelete, reported, expParsers>>

\* A setState with no callback, from a tab or dialog event; n: the event
\* counts as one (the close of the dialog comes with its opening).
UiSetState(part, n) ==
  /\ CanEnterOwn
  /\ nRep + nUi + n <= MaxEv
  /\ pending' = Append(pending, Update(part, "none", NoCont, "none"))
  /\ nUi' = nUi + n
  /\ batchN' = 0
  /\ expParsers' = state.parsers
  /\ vlog' = <<>>
  /\ clog' = <<>>
  /\ UNCHANGED <<config, state, mounted, microtasks, codec, lastReport,
                 lastChange, nMut, nChange, nRep, reported>>

\* handleTabChange(event, newValue): newValue is the index of a rendered tab.
HandleTabChange(newValue) ==
  /\ newValue \in 0..(Len(state.parsers) - 1)
  /\ UiSetState("tabIndex" :> newValue, 1)
  /\ ev' = NoEvent
  /\ UNCHANGED nDelete

\* The click on the remove button.
ShowRemoveConfirm ==
  /\ UiSetState("showRemoveConfirm" :> TRUE, 1)
  /\ ev' = NoEvent
  /\ UNCHANGED nDelete

OnDeleteCallsUnguarded(ok) == 1

\* The props.onDelete calls of onClose(ok): one if ok.
OnDeleteCalls(ok) == IF ok THEN 1 ELSE 0

\* onClose(ok) of the remove dialog, which is rendered while showRemoveConfirm.
CloseRemoveConfirm(ok) ==
  /\ state.showRemoveConfirm
  /\ UiSetState("showRemoveConfirm" :> FALSE, 0)
  /\ nDelete' = nDelete + OnDeleteCalls(ok)
  /\ ev' = [t |-> "closeConfirm", ok |-> ok]

\* ----------------------------------------------------------- continuations

RemoveAt(q, i) == [j \in 1..(Len(q) - 1) |-> IF j < i THEN q[j] ELSE q[j + 1]]

\* A continuation resumes: the steps below share this frame.
Resume(i, update) ==
  /\ microtasks' = RemoveAt(microtasks, i)
  /\ pending' = Append(pending, update)
  /\ vlog' = <<>>
  /\ clog' = <<>>
  /\ UNCHANGED <<config, state, mounted, batchN, codec, lastReport, lastChange,
                 nMut, nChange, nRep, nUi, nDelete, expParsers>>

\* onParserAdd after `await this.handleChange`: onParserValidate(uuid, false).
OnParserAddValidate(i) ==
  /\ i \in 1..Len(microtasks)
  /\ microtasks[i].t = "add2"
  /\ Resume(i, ParserValidateUpdate(microtasks[i].key, NewParserValid,
                                    [microtasks[i] EXCEPT !.t = "add3"]))
  /\ reported' = (microtasks[i].key :> NewParserValid) @@ reported
  /\ ev' = NoEvent

\* onParserAdd after `await this.onParserValidate`: select the last tab.
OnParserAddTab(i) ==
  /\ i \in 1..Len(microtasks)
  /\ microtasks[i].t = "add3"
  /\ Resume(i, Update("tabIndex" :> (Len(state.parsers) - 1), "none", NoCont, "none"))
  /\ ev' = [microtasks[i] EXCEPT !.t = "addDone"]
  /\ UNCHANGED reported

\* onParserDelete after `await this.handleChange`: select the tab before.
OnParserDeleteTab(i) ==
  /\ i \in 1..Len(microtasks)
  /\ microtasks[i].t = "del2"
  /\ Resume(i, Update("tabIndex" :> (state.tabIndex - 1), "tabfix", NoCont, "none"))
  /\ ev' = [microtasks[i] EXCEPT !.t = "delDone"]
  /\ UNCHANGED reported

\* ------------------------------------------------------------------ commit

\* The updates of q whose callback is cb, in order.
WithCallback(q, cb) == SelectSeq(q, LAMBDA u : u.cb = cb)

\* q with each update's place in it.
Indexed(q) == [i \in 1..Len(q) |-> [i |-> i, u |-> q[i]]]

\* The props.onChange calls of the callbacks of q, run on the committed state
\* st.  Each is logged with the field and value of the handleChange that
\* queued it and whether a later update of the batch wrote the same field.
ChangeCalls(q, st) ==
  LET c == SelectSeq(Indexed(q), LAMBDA e : e.u.cb = "change")
  IN [j \in 1..Len(c) |->
        [payload |-> Persisted(st),
         fld |-> c[j].u.fld,
         value |-> c[j].u.part[c[j].u.fld],
         last |-> \A k \in (c[j].i + 1)..Len(q) : c[j].u.fld \notin DOMAIN q[k].part]]

\* The continuations the callbacks of q resolve, in order; a continuation is
\* solo when its handler's call was the only one of its batch.
Resolved(q, n) ==
  LET c == SelectSeq(q, LAMBDA u : u.cont.t # "none")
  IN [j \in 1..Len(c) |-> [c[j].cont EXCEPT !.solo = @ /\ n <= 1]]

\* The setState calls of the callbacks of q: onParserDelete's callback resets
\* a negative tabIndex.
CallbackUpdates(q, st) ==
  LET c == SelectSeq(q, LAMBDA u : u.cb = "tabfix" /\ st.tabIndex < 0)
  IN [j \in 1..Len(c) |-> Update("tabIndex" :> 0, "none", NoCont, "none")]

\* React commits the queued updates: merges them in order into this.state,
\* then runs their callbacks in order.
Flush ==
  /\ mounted
  /\ pending # <<>>
  /\ LET st == MergeAll(state, pending)
         v == WithCallback(pending, "validate")
         c == ChangeCalls(pending, st)
     IN /\ state' = st
        /\ vlog' = [j \in 1..Len(v) |-> Report(EmptyPart, TRUE, st)]
        /\ lastReport' = IF v = <<>> THEN lastReport ELSE Report(EmptyPart, TRUE, st)
        /\ clog' = c
        /\ lastChange' = IF c = <<>> THEN lastChange ELSE c[Len(c)].payload
        /\ nChange' = nChange + Len(c)
        /\ microtasks' = microtasks \o Resolved(pending, batchN)
        /\ pending' = CallbackUpdates(pending, st)
  /\ batchN' = 0
  /\ ev' = NoEvent
  /\ UNCHANGED <<config, mounted, codec, nMut, nRep, nUi, nDelete, reported,
                 expParsers>>

\* ------------------------------------------------------------------- codec

\* The codec of a parser instance (ParserConfig.instance): decode reads the
\* field of a descriptor out of a payload, encode splices a value into one.
\* Conventions: dataOffset and dataLength count bytes, integers are stored
\* little-endian, signed ones in two's complement.

\* Bytes of the payloads tried.
PayloadLen == 3

Byte == 0..255

\* The payloads a value is spliced into.
Payloads == {[i \in 1..PayloadLen |-> 0], [i \in 1..PayloadLen |-> 255]}

IntegerTypes == {"int8", "uint8", "int16", "uint16"}

Signed(dataType) == dataType \in {"int8", "int16"}

\* Bytes of an integer type.
TypeLength(dataType) == IF dataType \in {"int8", "uint8"} THEN 1 ELSE 2

RECURSIVE Pow256(_)
Pow256(n) == IF n = 0 THEN 1 ELSE 256 * Pow256(n - 1)

RECURSIVE BitAnd(_, _)
BitAnd(a, b) ==
  IF a = 0 \/ b = 0 THEN 0
  ELSE (a % 2) * (b % 2) + 2 * BitAnd(a \div 2, b \div 2)

\* The field of desc lies within a payload of len bytes.
FieldInPayload(desc, len) ==
  /\ desc.dataOffset >= 0
  /\ desc.dataLength > 0
  /\ desc.dataOffset + desc.dataLength <= len

\* The bytes of the field read as one unsigned number.
RawField(desc, payload) ==
  LET RECURSIVE Sum(_)
      Sum(i) == IF i > desc.dataLength THEN 0
                ELSE payload[desc.dataOffset + i] * Pow256(i - 1) + Sum(i + 1)
  IN Sum(1)

DecodeIntegerUnsigned(desc, payload) == RawField(desc, payload)

\* The raw bits read with the width and signedness of the data type.
DecodeInteger(desc, payload) ==
  LET raw == RawField(desc, payload)
  IN IF Signed(desc.dataType) /\ raw >= Pow256(desc.dataLength) \div 2
     THEN raw - Pow256(desc.dataLength)
     ELSE raw

\* booleanMask applied, then the result XORed with booleanInvert.
DecodeBoolean(desc, payload) ==
  (BitAnd(payload[desc.dataOffset + 1], desc.booleanMask) # 0) # desc.booleanInvert

\* What decode and encode return: a value, or an error.
Ok(v) == [ok |-> TRUE, v |-> v]
Err(e) == [ok |-> FALSE, error |-> e]

\* decode(descriptor, payload), no customScriptRead set.
Decode(desc, payload) ==
  IF ~FieldInPayload(desc, Len(payload)) THEN Err("DecodeError")
  ELSE IF desc.dataType = "boolean" THEN Ok(DecodeBoolean(desc, payload))
  ELSE Ok(DecodeInteger(desc, payload))

\* The value packed into the bytes of the field.
EncodeInteger(desc, value, payload) ==
  LET raw == IF value < 0 THEN value + Pow256(desc.dataLength) ELSE value
  IN [i \in 1..Len(payload) |->
        IF i > desc.dataOffset /\ i <= desc.dataOffset + desc.dataLength
        THEN (raw \div Pow256(i - desc.dataOffset - 1)) % 256
        ELSE payload[i]]

\* Invert and mask applied again: the bits of the mask are set or cleared.
EncodeBoolean(desc, value, payload) ==
  LET old == payload[desc.dataOffset + 1]
      bits == IF value # desc.booleanInvert THEN desc.booleanMask ELSE 0
  IN [payload EXCEPT ![desc.dataOffset + 1] =
        (old - BitAnd(old, desc.booleanMask)) + bits]

\* encode(descriptor, value) spliced into payload, no customScriptWrite set.
Encode(desc, value, payload) ==
  IF ~FieldInPayload(desc, Len(payload)) THEN Err("EncodeError")
  ELSE IF desc.dataType = "boolean" THEN Ok(EncodeBoolean(desc, value, payload))
  ELSE Ok(EncodeInteger(desc, value, payload))

\* ----------------------------------------------------------- specification

Next ==
  \/ ComponentDidMount
  \/ \E v \in IdInputs : SetField("id", v)
  \/ \E v \in NameInputs : SetField("name", v)
  \/ \E v \in DlcInputs : SetField("dlc", v)
  \/ \E v \in BOOLEAN : SetField("receive", v)
  \/ \E v \in BOOLEAN : SetField("send", v)
  \/ \E v \in BOOLEAN : SetField("autosend", v)
  \/ \E uuid \in Uuidv4Results : OnParserAdd(uuid)
  \/ \E uuid \in Keys, p \in ParserInputs : OnParserChange(uuid, p)
  \/ \E uuid \in Keys : OnParserDelete(uuid)
  \/ \E uuid \in Keys, valid \in BOOLEAN : OnParserValidate(uuid, valid)
  \/ \E i \in 1..NumKeys : OnParserAddValidate(i)
  \/ \E i \in 1..NumKeys : OnParserAddTab(i)
  \/ \E i \in 1..NumKeys : OnParserDeleteTab(i)
  \/ \E n \in 0..NumKeys : HandleTabChange(n)
  \/ ShowRemoveConfirm
  \/ \E ok \in BOOLEAN : CloseRemoveConfirm(ok)
  \/ Flush

Spec == Init /\ [][Next]_vars

\* ------------------------------------------------- specification of the codec

\* Descriptors with a fixed data type and no custom script: the integer
\* types at every offset of the payload (the last offset leaves a 16 bit
\* field no room) and boolean fields with several masks.
Descs ==
  {[DefaultParser EXCEPT !.dataType = t, !.dataOffset = o, !.dataLength = TypeLength(t)] :
     t \in IntegerTypes, o \in 0..(PayloadLen - 1)}
  \cup
  {[DefaultParser EXCEPT !.dataType = "boolean", !.dataOffset = o,
                         !.booleanMask = m, !.booleanInvert = inv] :
     o \in {0, PayloadLen - 1}, m \in {0, 2, 129}, inv \in BOOLEAN}

\* The integers tried: every 8 bit value and the edges of the 16 bit ranges.
ValueSamples == (-129..256) \cup {-32768, -32767, -257, 257, 32767, 32768, 65534, 65535}

\* The values representable in the field of desc: the integers of its width
\* and signedness; for a boolean field the values some byte decodes to.
Representable(desc) ==
  IF desc.dataType = "boolean"
  THEN {DecodeBoolean([desc EXCEPT !.dataOffset = 0], <<b>>) : b \in Byte}
  ELSE LET half == Pow256(desc.dataLength) \div 2
       IN {v \in ValueSamples :
             IF Signed(desc.dataType) THEN -half <= v /\ v < half
             ELSE 0 <= v /\ v < 2 * half}

\* The message the parser belongs to takes no step while its codec runs.
CodecInit ==
  /\ config = EmptyConfig
  /\ state = CtorState(EmptyConfig)
  /\ mounted = FALSE
  /\ pending = <<>>
  /\ microtasks = <<>>
  /\ batchN = 0
  /\ vlog = <<Report(CtorArg(EmptyConfig), FALSE, EmptyPart)>>
  /\ lastReport = Report(CtorArg(EmptyConfig), FALSE, EmptyPart)
  /\ clog = <<>>
  /\ lastChange = NoChange
  /\ nMut = 0
  /\ nChange = 0
  /\ nRep = 0
  /\ nUi = 0
  /\ nDelete = 0
  /\ reported = <<>>
  /\ expParsers = <<>>
  /\ ev = [t |-> "constructor"]
  /\ \E d \in Descs : \E v \in Representable(d) : \E p \in Payloads :
       codec = [pc |-> "encode", desc |-> d, value |-> v, into |-> p,
                payload |-> p, out |-> Err("none")]

messageVars == <<config, state, mounted, pending, microtasks, batchN, vlog, lastReport,
                 clog, lastChange, nMut, nChange, nRep, nUi, nDelete, reported,
                 expParsers, ev>>

\* encode(desc, value), spliced into the payload.
CodecEncode ==
  /\ codec.pc = "encode"
  /\ LET bytes == Encode(codec.desc, codec.value, codec.payload)
     IN codec' = IF bytes.ok
                 THEN [codec EXCEPT !.pc = "decode", !.payload = bytes.v]
                 ELSE [codec EXCEPT !.pc = "failed", !.out = bytes]
  /\ UNCHANGED messageVars

\* decode(desc, payload) of the payload encode produced.
CodecDecode ==
  /\ codec.pc = "decode"
  /\ codec' = [codec EXCEPT !.pc = "done", !.out = Decode(codec.desc, codec.payload)]
  /\ UNCHANGED messageVars

CodecNext == CodecEncode \/ CodecDecode

CodecSpec == CodecInit /\ [][CodecNext]_vars

\* ------------------------------------------------------------------ claims

PersistedFields == {"id", "name", "dlc", "receive", "send", "autosend", "parsers"}

\* The queued updates that write a persisted field.
PendingMutations ==
  Cardinality({i \in 1..Len(pending) : DOMAIN pending[i].part \cap PersistedFields # {}})

\* The place of key k in object o.
Place(o, k) == CHOOSE i \in 1..Len(o) : o[i].key = k

\* C1: every verdict handed to props.onValidate equals (the id validateState
\* checked - the one given, else the stored one - is 3 or 8 hex digits) and
\* (every verdict held in this.state.parsersValid at that moment is true).
C1_VerdictIsAggregate ==
  \A i \in 1..Len(vlog) :
    vlog[i].valid = (/\ MatchesIdRegexp(vlog[i].id)
                     /\ \A k \in DOMAIN vlog[i].pv : vlog[i].pv[k])

\* A verdict computed from the stored id and a cached invalid child, after a
\* mutation and a child report.
C1_Witness ==
  /\ mounted /\ nMut > 0 /\ nRep > 0
  /\ vlog # <<>>
  /\ ~vlog[1].valid
  /\ MatchesIdRegexp(vlog[1].id)
  /\ \E k \in DOMAIN vlog[1].pv : ~vlog[1].pv[k]

\* C2 (as claimed): when onParserDelete(k) completes for a message with a
\* well-formed id whose only invalid cached child verdict was that of k, the
\* last reported verdict is Valid.
C2_DeleteInvalidChildGivesValid ==
  (ev.t = "delDone" /\ ev.solo /\ ev.only) => lastReport.valid

\* C3 (as claimed): once all reports are processed, parsersValid holds the
\* last verdict reported for every key, and the last reported verdict is
\* Invalid when an existing parser's latest reported verdict is false.
C3_ReportsAllKept ==
  Quiescent =>
    /\ \A k \in DOMAIN reported :
         k \in DOMAIN state.parsersValid /\ state.parsersValid[k] = reported[k]
    /\ (\E k \in ObjKeys(state.parsers) \cap DOMAIN reported : ~reported[k])
         => ~lastReport.valid

\* C4 (as claimed): once the mutations issued back to back have completed,
\* parsers is what applying them in the order issued gives, and the last
\* onChange carries that mapping.
C4_MutationsAllApplied ==
  Quiescent =>
    /\ state.parsers = expParsers
    /\ nChange > 0 => lastChange.parsers = expParsers

\* C5: when onParserAdd completes, the new key is in parsers with an empty id,
\* parsersValid holds false for it and the last verdict handed to
\* props.onValidate is Invalid.
C5_NewParserInvalid ==
  ev.t = "addDone" =>
    /\ ev.key \in ObjKeys(state.parsers)
    /\ state.parsers[Place(state.parsers, ev.key)].cfg.id = <<>>
    /\ ev.key \in DOMAIN state.parsersValid
    /\ state.parsersValid[ev.key] = FALSE
    /\ lastReport.valid = FALSE

\* onParserAdd has completed on a message with a well-formed id.
C5_Witness ==
  /\ ev.t = "addDone"
  /\ MatchesIdRegexp(state.id)
  /\ Len(state.parsers) >= 2

\* C6 (as claimed): with no operation in progress, no parsers and a
\* well-formed stored id, the last verdict handed to props.onValidate is true.
C6_NoParsersValidIdIsValid ==
  (Quiescent /\ state.parsers = <<>> /\ MatchesIdRegexp(state.id)) => lastReport.valid

\* C7: idError is set exactly when the stored id is not 3 or 8 hex digits, in
\* every state from construction on (so a well-formed id clears it again).
C7_IdErrorIffMalformed ==
  (state.idError # Null) <=> ~MatchesIdRegexp(state.id)

\* The error was set at construction and a later id cleared it.
C7_Witness ==
  /\ CtorState(config).idError # Null
  /\ state.idError = Null
  /\ Len(state.id) = 3

DeleteFrame(old, new, k) ==
  /\ ObjKeys(new) = ObjKeys(old) \ {k}
  /\ Len(new) = Cardinality(ObjKeys(new))
  /\ \A j \in ObjKeys(new) : new[Place(new, j)].cfg = old[Place(old, j)].cfg
  /\ \A j1, j2 \in ObjKeys(new) :
       Place(new, j1) < Place(new, j2) <=> Place(old, j1) < Place(old, j2)
  /\ k \notin ObjKeys(old) => new = old

C10_ConstructorDefaults ==
  ~mounted =>
    /\ state.dlc = (IF config.dlc.t = "number" THEN config.dlc.v ELSE -1)
    /\ config.receive = Undefined => state.receive = FALSE
    /\ config.send = Undefined => state.send = FALSE
    /\ config.autosend = Undefined => state.autosend = FALSE
    /\ config.id = Undefined => state.id = <<>>
    /\ config.name = Undefined => state.name = <<>>
    /\ config.parsers = Undefined => state.parsers = <<>>
    /\ state.parsersValid = <<>>

\* A message constructed from a configuration with dlc 0.
C10_Witness ==
  /\ ~mounted
  /\ config.dlc = Num(0)
  /\ state.dlc = 0
  /\ config.parsers # Undefined

\* C11 (as claimed): in every state, from construction on and after every
\* change of the data length, the stored dlc is an integer from -1 to 8.
C11_DlcInRange ==
  state.dlc \in -1..8

\* The fields setField writes other than id.
OtherFields == {"name", "dlc", "receive", "send", "autosend"}

\* C12: a handleChange of name, dlc, receive, send or autosend hands to
\* setState that field alone, changes no state before the commit and reports
\* the verdict of the previous report again; its commit changes only that
\* field of this.state (idError, parsersValid and every other field stay, so
\* autosend survives send = false), reports nothing more and hands the
\* committed persisted fields to props.onChange once.
C12_SetFieldFrame ==
  [][/\ (pending = <<>> /\ Len(pending') = 1 /\ pending'[1].fld \in OtherFields) =>
          /\ DOMAIN pending'[1].part = {pending'[1].fld}
          /\ state' = state
          /\ vlog' = <<lastReport'>>
          /\ lastReport'.valid = lastReport.valid
     /\ (Len(pending) = 1 /\ pending[1].fld \in OtherFields /\ pending' = <<>>) =>
          /\ state' = [state EXCEPT ![pending[1].fld] = pending[1].part[pending[1].fld]]
          /\ vlog' = <<>>
          /\ lastReport' = lastReport
          /\ Len(clog') = 1
          /\ clog'[1].payload = Persisted(state')]_vars

\* autosend was set to true and send to false afterwards, on a message that
\* is reported valid: autosend is still true.
C12_Witness ==
  /\ Quiescent /\ nChange = 2
  /\ config.autosend = Undefined
  /\ clog # <<>> /\ clog[1].fld = "send" /\ clog[1].value = FALSE
  /\ state.autosend /\ ~state.send
  /\ lastReport.valid

\* C13 (as claimed): onParserAdd goes on to setState only with a key that is
\* not a key of the parsers it read (a key in use ends in a failure and
\* replaces nothing), and the parsers it hands to setState are those it read,
\* unchanged and in their order, with one entry more.
C13_AddNeverReusesKey ==
  \A i \in 1..Len(pending) :
    pending[i].cont.t = "add2" =>
      /\ pending[i].cont.key \notin ObjKeys(pending[i].cont.pre)
      /\ Len(pending[i].part.parsers) = Len(pending[i].cont.pre) + 1
      /\ \A j \in 1..Len(pending[i].cont.pre) :
           pending[i].part.parsers[j] = pending[i].cont.pre[j]

\* C14 (as claimed): whenever the stored dlc is 0 or more and the last
\* verdict handed to props.onValidate is Valid, every parser of the message
\* has dataOffset + dataLength <= dlc.  Stated for the states in which no
\* update or continuation is outstanding, which the claim's every state
\* includes.
C14_ValidImpliesFieldsInRange ==
  (Quiescent /\ state.dlc >= 0 /\ lastReport.valid) =>
    \A i \in 1..Len(state.parsers) :
      state.parsers[i].cfg.dataOffset + state.parsers[i].cfg.dataLength <= state.dlc

\* id followed by '-' and the one digit of d.
IdDashDigit(id, d) ==
  Append(Append(id, "-"),
         CASE d = 0 -> "0" [] d = 1 -> "1" [] d = 2 -> "2" [] d = 3 -> "3" [] d = 4 -> "4"
           [] d = 5 -> "5" [] d = 6 -> "6" [] d = 7 -> "7" [] d = 8 -> "8")

\* C15: with a stored dlc from -1 to 8, the msgId every Parser child is
\* rendered with is the stored id when dlc is -1 and otherwise the stored id,
\* '-' and dlc (for dlc 0 too); and for the stored id the same holds of every
\* dlc from -1 to 8.  It is computed from the state that is current: every
\* commit of a setField is followed by a render.
C15_MsgIdIsIdWithDlc ==
  /\ state.dlc \in -1..8 =>
       \A i \in 1..Len(RenderParsers(state)) :
         /\ RenderParsers(state)[i].uuid = state.parsers[i].key
         /\ RenderParsers(state)[i].msgId =
              (IF state.dlc = -1 THEN state.id ELSE IdDashDigit(state.id, state.dlc))
  /\ ParserMsgId([state EXCEPT !.dlc = -1]) = state.id
  /\ \A d \in 0..8 : ParserMsgId([state EXCEPT !.dlc = d]) = IdDashDigit(state.id, d)

\* The data length of a message with an id and a parser was set to 0, and
\* the parser is rendered with the id, '-' and '0'.
C15_Witness ==
  /\ Quiescent
  /\ clog # <<>> /\ clog[1].fld = "dlc" /\ clog[1].value = 0
  /\ state.parsers # <<>>
  /\ Len(state.id) = 8
  /\ RenderParsers(state)[1].msgId = state.id \o <<"-", "0">>

C17_NoTornAdd ==
  \A i \in 1..Len(microtasks) : \A j \in 1..Len(clog) :
    (/\ microtasks[i].t = "add2"
     /\ microtasks[i].key \in ObjKeys(clog[j].payload.parsers)
     /\ clog[j].payload.parsers[Place(clog[j].payload.parsers, microtasks[i].key)].cfg.id = <<>>)
    => ~lastReport.valid

\* C18 (as claimed): with no update or continuation outstanding, tabIndex is
\* not negative and, when there are parsers, below their number; and when an
\* onParserAdd that ran alone completes, the tabIndex it hands to setState is
\* the place of the parser stored under its key, which is the last one.
C18_TabIndexInRange ==
  /\ Quiescent =>
       /\ state.tabIndex >= 0
       /\ state.parsers # <<>> => state.tabIndex < Len(state.parsers)
  /\ (ev.t = "addDone" /\ ev.solo) =>
       /\ pending # <<>>
       /\ pending[Len(pending)].part = ("tabIndex" :> (Len(state.parsers) - 1))
       /\ Place(state.parsers, ev.key) = Len(state.parsers)

\* An update that closes the remove dialog is queued in q.
CloseQueued(q) ==
  \E i \in 1..Len(q) :
    "showRemoveConfirm" \in DOMAIN q[i].part /\ ~q[i].part.showRemoveConfirm

\* C19: props.onDelete is called only by onClose(true) of the remove dialog
\* while the dialog is shown, one call at a time; onClose(false) calls
\* nothing (not onDelete, onChange or onValidate) and changes no field; either
\* way the close is queued, no further onDelete call is made before it is
\* committed, and its commit sets showRemoveConfirm to false and nothing
\* else - so a second call needs the dialog opened again.
C19_DeleteNeedsConfirm ==
  [][/\ nDelete' \in {nDelete, nDelete + 1}
     /\ nDelete' # nDelete =>
          /\ state.showRemoveConfirm
          /\ ev'.t = "closeConfirm" /\ ev'.ok
     /\ ev'.t = "closeConfirm" =>
          /\ state.showRemoveConfirm
          /\ CloseQueued(pending')
          /\ state' = state
          /\ ~ev'.ok => nDelete' = nDelete /\ clog' = <<>> /\ vlog' = <<>>
     /\ CloseQueued(pending) =>
          /\ nDelete' = nDelete
          /\ clog' = <<>> /\ vlog' = <<>>
          /\ state' = [state EXCEPT !.showRemoveConfirm = FALSE]]_vars

\* The dialog was confirmed and closed, opened again and is now cancelled.
C19_Witness ==
  /\ ev.t = "closeConfirm" /\ ~ev.ok
  /\ nDelete = 1
  /\ state.showRemoveConfirm
  /\ CloseQueued(pending)

====
